---- MODULE Spec2Model ----
(***************************************************************************)
(* Model of the LMD notifier (src/index.ts, the revision at lines 468-746): *)
(* module-level configuration loading, the monitoring loop of main(), the  *)
(* browser-session lifecycle of checkAppointments(), the notification      *)
(* fan-outs over sendTelegramNotification() and getRandomizedInterval().   *)
(*                                                                         *)
(* The program is single-threaded: it only gives up control at an await.   *)
(* Every action below is the code that runs from one await to the next.    *)
(***************************************************************************)
EXTENDS Integers, Sequences, FiniteSets, TLC

VARIABLES
    TELEGRAM_BOT_TOKEN,      \* TRUE iff the environment variable is set and non-empty
    USERS_JSON,              \* the raw environment value, by what JSON.parse makes of it
    SCRAPE_INTERVAL_MINUTES, \* the configured minutes, a fraction [num, den]
    users,                   \* the validated recipient list
    pc,                      \* where the single thread of control is
    exitCode,                \* <<>> while the process runs, <<c>> once it exited with c
    browser,                 \* session of the current checkAppointments call
    step,                    \* index into ScrapeSteps of the next awaited page call
    closeCalls,              \* browser.close() calls made by the current call
    launches,                \* puppeteer.launch() calls made by the current call
    servicesText,            \* local servicesText of checkAppointments
    pending,                 \* completion the try/catch block left for after finally
    result,                  \* what the last checkAppointments call gave main()
    outcome,                 \* how the last checkAppointments call ended
    errorMessage,            \* message of the error last caught or thrown
    requests,                \* HTTP POST bodies issued since the cycle began
    delivery,                \* per request: state of its sendTelegramNotification call
    ops,                     \* operations main() performed since the cycle began
    interval,                \* delay of the timer main() is sleeping on
    orphans,                 \* sessions earlier calls left open and lost track of
    navigations,             \* page.goto() calls made by the current call
    dialogs,                 \* the dialog handlers started and not yet forgotten
    prevNotified             \* TRUE iff the previous cycle fanned out availability notices

vars == <<TELEGRAM_BOT_TOKEN, USERS_JSON, SCRAPE_INTERVAL_MINUTES, users, pc,
          exitCode, browser, step, closeCalls, launches, servicesText, pending,
          result, outcome, errorMessage, requests, delivery, ops, interval,
          orphans, navigations, dialogs, prevNotified>>

config == <<TELEGRAM_BOT_TOKEN, USERS_JSON, SCRAPE_INTERVAL_MINUTES>>
probe == <<browser, step, closeCalls, launches, servicesText, pending,
           orphans, navigations>>

----------------------------------------------------------------------------
(* Bounds *)

MaxUsers == 2          \* longest recipient list
MaxTextLen == 3        \* longest extracted text, in words
RandomSteps == 12      \* Math.random() returns k / RandomSteps, k in 0..RandomSteps-1
MaxMinutes == 10       \* largest whole-minute interval
MaxSubMs == 12         \* largest sub-minute interval, in 1/60000 minute
MaxOrphans == 1        \* most sessions the browser leaves open after a failed close
MaxDialogs == 1        \* most dialogs the page raises before handlers are forgotten

Range(s) == {s[i] : i \in 1..Len(s)}

SeqsUpTo(S, n) == UNION {[1..m -> S] : m \in 0..n}

----------------------------------------------------------------------------
(* Recipients and their validation *)

Empty == <<>>

User(i) == [telegram_user_id |-> <<"chat", i>>,
            embassy_id       |-> <<"id", i>>,
            embassy_password |-> <<"pw", i>>]

\* the i-th entry as it may appear in USERS_JSON: complete, or with one field
\* missing or empty
Entries(i) == {User(i),
               [User(i) EXCEPT !.telegram_user_id = Empty],
               [User(i) EXCEPT !.embassy_id = Empty],
               [User(i) EXCEPT !.embassy_password = Empty]}

ArrayInputs == UNION {{s \in [1..m -> UNION {Entries(i) : i \in 1..MaxUsers}] :
                          \A i \in 1..m : s[i] \in Entries(i)} : m \in 0..MaxUsers}

UsersJsonInputs ==
    {[kind |-> "unset", items |-> <<>>],
     [kind |-> "garbage", items |-> <<>>],
     [kind |-> "object", items |-> <<>>]}
    \cup {[kind |-> "array", items |-> a] : a \in ArrayInputs}

\* JavaScript !v for the values a field can hold
Falsy(v) == v = Empty

BadValidUser(user) ==
    ~(Falsy(user.telegram_user_id) \/ Falsy(user.embassy_id))

ValidUser(user) ==
    ~(Falsy(user.telegram_user_id) \/ Falsy(user.embassy_id)
        \/ Falsy(user.embassy_password))

\* the try block of lines 495-507 completes without throwing
ValidUsersJson(json) ==
    /\ json.kind = "array"
    /\ Len(json.items) # 0
    /\ \A i \in 1..Len(json.items) : ValidUser(json.items[i])

\* lines 482-510 complete without throwing
ConfigLoads(token, json) ==
    /\ token
    /\ json.kind # "unset"
    /\ ValidUsersJson(json)

----------------------------------------------------------------------------
(* getRandomizedInterval, in exact arithmetic *)

Minutes(num, den) == [num |-> num, den |-> den]

\* Number(SCRAPE_INTERVAL_MINUTES) * 60 * 1000
baseInterval(minutes) == (minutes.num * 60 * 1000) \div minutes.den

\* Math.round of the fraction n / d, d > 0: halves round up
MathRound(n, d) == (2 * n + d) \div (2 * d)

BadGetRandomizedInterval(minutes, k) ==
    LET B == baseInterval(minutes)
        scale == 10 * RandomSteps
        variation == 2 * B * RandomSteps
        randomOffset == (k * 2 * variation) \div RandomSteps
    IN  MathRound(B * scale + randomOffset, scale)

\* k / RandomSteps is the value Math.random() returned.  All quantities are
\* kept as multiples of 1 / (10 * RandomSteps) ms, which makes them integers.
getRandomizedInterval(minutes, k) ==
    LET B == baseInterval(minutes)
        scale == 10 * RandomSteps
        variation == 2 * B * RandomSteps                 \* baseInterval * 0.2
        randomOffset == ((2 * k - RandomSteps) * 2 * variation)
                            \div (2 * RandomSteps)       \* (random - 0.5) * 2 * variation
    IN  MathRound(B * scale + randomOffset, scale)

BadRetryDelay == 60 * 100

\* line 734
retryDelay == 60000

WholeMinutes == {Minutes(m, 1) : m \in 1..MaxMinutes}
SubMinutes == {Minutes(n, 60000) : n \in 0..MaxSubMs}

----------------------------------------------------------------------------
(* Page text and the marker test *)

Alphabet == {"LEY", "MEMORIA", "OTHER"}
Marker == <<"LEY", "MEMORIA">>

\* what el.textContent may be: null, or a string (a sequence of words)
TextContents ==
    {[isNull |-> TRUE, value |-> <<>>]}
    \cup {[isNull |-> FALSE, value |-> t] : t \in SeqsUpTo(Alphabet, MaxTextLen)}

\* el.textContent || ''
OrEmpty(tc) == IF tc.isNull \/ tc.value = <<>> THEN <<>> ELSE tc.value

BadIncludes(text, m) ==
    Len(text) >= Len(m) /\ SubSeq(text, 1, Len(m)) = m

\* String.prototype.includes
Includes(text, m) ==
    \E i \in 0..(Len(text) - Len(m)) : SubSeq(text, i + 1, i + Len(m)) = m

----------------------------------------------------------------------------
(* Notification texts and requests *)

Text(headline, username, password, error, minutes) ==
    [headline |-> headline, username |-> username, password |-> password,
     error |-> error, minutes |-> minutes]

NoMinutes == Minutes(0, 1)

\* body of the POST that sendTelegramNotification(message, chatId) issues
Request(message, chatId) == [chat_id |-> chatId, text |-> message]

BadNotifyAllUsersRequests(us) ==
    [i \in 1..Len(us) |->
        Request(Text("availability", us[1].embassy_id, us[1].embassy_password,
                     Empty, NoMinutes),
                us[i].telegram_user_id)]

\* the calls users.map(...) makes in notifyAllUsers, in order
notifyAllUsersRequests(us) ==
    [i \in 1..Len(us) |->
        Request(Text("availability", us[i].embassy_id, us[i].embassy_password,
                     Empty, NoMinutes),
                us[i].telegram_user_id)]

\* the calls users.map(...) makes in notifyStartup
notifyStartupRequests(us, minutes) ==
    [i \in 1..Len(us) |->
        Request(Text("startup", Empty, Empty, Empty, minutes),
                us[i].telegram_user_id)]

\* the calls users.map(...) makes in notifyError(error)
notifyErrorRequests(us, error) ==
    [i \in 1..Len(us) |->
        Request(Text("error", Empty, Empty, error, NoMinutes),
                us[i].telegram_user_id)]

BadStartDeliveries(reqs) == IF reqs = <<>> THEN <<>> ELSE <<reqs[1]>>

\* users.map runs every sendTelegramNotification call up to its fetch before
\* Promise.allSettled is entered: every request is issued
StartDeliveries(reqs) == reqs

BadAllSettledAny ==
    delivery = <<>> \/ \E i \in 1..Len(delivery) : delivery[i] # "pending"

BadAllSettledOk == \A i \in 1..Len(delivery) : delivery[i] = "ok"

\* Promise.allSettled resolves once no mapped call is pending
AllSettled == \A i \in 1..Len(delivery) : delivery[i] # "pending"

\* a dialog handler (lines 603-613) is in flight while it waits for its
\* timer ("delay") or for dialog.accept() ("accepting"); "Gone" marks that the
\* session that raised the dialog has been closed meanwhile
InFlight(h) == h \in {"delay", "accepting", "delayGone", "acceptingGone"}

\* the handlers once the session that raised their dialogs is closed
SessionGone(hs) ==
    [i \in 1..Len(hs) |-> CASE hs[i] = "delay" -> "delayGone"
                             [] hs[i] = "accepting" -> "acceptingGone"
                             [] OTHER -> hs[i]]

----------------------------------------------------------------------------
(* Initial states: the environment the process is started in *)

MainIntervals == {Minutes(10, 1), Minutes(1, 1), Minutes(3, 60000)}

InitRest ==
    /\ users = <<>>
    /\ exitCode = <<>>
    /\ browser = "none"
    /\ step = 0
    /\ closeCalls = 0
    /\ launches = 0
    /\ servicesText = <<>>
    /\ pending = "none"
    /\ result = "none"
    /\ outcome = "none"
    /\ errorMessage = Empty
    /\ requests = <<>>
    /\ delivery = <<>>
    /\ ops = <<>>
    /\ interval = 0
    /\ orphans = 0
    /\ navigations = 0
    /\ dialogs = <<>>
    /\ prevNotified = FALSE

Init ==
    /\ TELEGRAM_BOT_TOKEN \in BOOLEAN
    /\ USERS_JSON \in UsersJsonInputs
    /\ SCRAPE_INTERVAL_MINUTES \in MainIntervals
    /\ pc = "load"
    /\ InitRest

----------------------------------------------------------------------------
(* Module level, lines 482-510 *)

\* the checks pass: users holds the parsed list and main() is called
LoadOk ==
    /\ pc = "load"
    /\ ConfigLoads(TELEGRAM_BOT_TOKEN, USERS_JSON)
    /\ users' = USERS_JSON.items
    /\ pc' = "main"
    /\ UNCHANGED <<config, exitCode, probe, result, outcome, errorMessage, requests,
                   delivery, ops, interval, dialogs,
                   prevNotified>>

\* a check throws at module level: the exception is uncaught, main() is never
\* called and the runtime ends the process with status 1
LoadThrows ==
    /\ pc = "load"
    /\ ~ConfigLoads(TELEGRAM_BOT_TOKEN, USERS_JSON)
    /\ pc' = "exited"
    /\ exitCode' = <<1>>
    /\ errorMessage' = IF ~TELEGRAM_BOT_TOKEN \/ USERS_JSON.kind = "unset"
                       THEN <<"Missing required environment variables">>
                       ELSE <<"Invalid USERS_JSON format">>
    /\ UNCHANGED <<config, users, probe, result, outcome, requests, delivery, ops,
                   interval, dialogs,
                   prevNotified>>

----------------------------------------------------------------------------
(* Fan-out *)

\* the synchronous part of a notify function: one fetch per mapped call
FanOut(name, reqs) ==
    /\ requests' = requests \o StartDeliveries(reqs)
    /\ delivery' = delivery \o [i \in 1..Len(StartDeliveries(reqs)) |-> "pending"]
    /\ ops' = Append(ops, name)

BadSettle ==
    /\ pc \in {"notifyStartup", "notifyAllUsers", "notifyError", "notifyCritical"}
    /\ \E i \in 1..Len(delivery) :
          /\ delivery[i] = "pending"
          /\ \E r \in {"ok", "notOk", "rejected"} :
                IF r # "ok" /\ Cardinality({j \in 1..Len(requests) :
                                               requests[j] = requests[i]}) = 1
                THEN /\ delivery' = Append([delivery EXCEPT ![i] = r], "pending")
                     /\ requests' = Append(requests, requests[i])
                ELSE /\ delivery' = [delivery EXCEPT ![i] = r]
                     /\ UNCHANGED requests
    /\ UNCHANGED <<config, users, pc, exitCode, probe, result, outcome, errorMessage,
                   ops, interval, dialogs, prevNotified>>

\* sendTelegramNotification, lines 538-555, after its fetch settled: the
\* response is ok, the response is not ok (logged), or fetch rejected and the
\* call rejects with it
Settle ==
    /\ pc \in {"notifyStartup", "notifyAllUsers", "notifyError", "notifyCritical"}
    /\ \E i \in 1..Len(delivery) :
          /\ delivery[i] = "pending"
          /\ \E r \in {"ok", "notOk", "rejected"} :
                delivery' = [delivery EXCEPT ![i] = r]
    /\ UNCHANGED <<config, users, pc, exitCode, probe, result, outcome, errorMessage,
                   requests, ops, interval, dialogs,
                   prevNotified>>

----------------------------------------------------------------------------
(* main, lines 713-739 *)

BadMainStart ==
    /\ pc = "main"
    /\ FanOut("notifyStartup", notifyStartupRequests(users, SCRAPE_INTERVAL_MINUTES))
    /\ pc' = "notifyStartup"
    /\ users' = [i \in 1..Len(users) |-> users[Len(users) + 1 - i]]
    /\ UNCHANGED <<config, exitCode, probe, result, outcome, errorMessage,
                   interval, dialogs, prevNotified>>

\* lines 714-717: main() runs up to the await inside notifyStartup
MainStart ==
    /\ pc = "main"
    /\ FanOut("notifyStartup", notifyStartupRequests(users, SCRAPE_INTERVAL_MINUTES))
    /\ pc' = "notifyStartup"
    /\ UNCHANGED <<config, users, exitCode, probe, result, outcome, errorMessage,
                   interval, dialogs,
                   prevNotified>>

\* Promise.allSettled of notifyStartup resolves; the loop is entered
StartupJoined ==
    /\ pc = "notifyStartup"
    /\ AllSettled
    /\ pc' = "loop"
    /\ UNCHANGED <<config, users, exitCode, probe, result, outcome, errorMessage,
                   requests, delivery, ops, interval, dialogs,
                   prevNotified>>

\* line 721 and lines 559-579: a cycle begins, checkAppointments is called
\* and runs up to the await of puppeteer.launch.  The browser local is fresh:
\* a session the previous call left open is out of the program's reach.
\* Handlers that completed in the previous cycle are forgotten.
CallCheck ==
    /\ pc = "loop"
    /\ pc' = "launch"
    /\ browser' = "none"
    /\ step' = 0
    /\ closeCalls' = 0
    /\ launches' = 1
    /\ servicesText' = <<>>
    /\ pending' = "none"
    /\ result' = "none"
    /\ outcome' = "none"
    /\ errorMessage' = Empty
    /\ requests' = <<>>
    /\ delivery' = <<>>
    /\ ops' = <<"checkAppointments">>
    /\ interval' = 0
    /\ orphans' = IF browser = "open" THEN orphans + 1 ELSE orphans
    /\ navigations' = 0
    /\ dialogs' = SelectSeq(dialogs, InFlight)
    /\ prevNotified' = ("notifyAllUsers" \in Range(ops))
    /\ UNCHANGED <<config, users, exitCode>>

----------------------------------------------------------------------------
(* checkAppointments, lines 558-646 *)

\* the awaited calls of the try block, lines 588-631, in order
ScrapeSteps == <<"pages", "setDefaultNavigationTimeout", "setDefaultTimeout",
                 "setUserAgent", "setExtraHTTPHeaders", "goto",
                 "waitForSelector#idCaptchaButton", "click",
                 "waitForSelector#idListServices", "$eval">>

BadCloseCallsAfterFinally(n, completion) ==
    IF completion = "caught" THEN n + 2 ELSE n + 1

\* browser.close() calls made once the finally block was entered with the
\* given completion of the try/catch
closeCallsAfterFinally(n, completion) == n + 1

\* the finally block, line 644, up to the await of browser.close()
Finally(completion) ==
    /\ pending' = completion
    /\ closeCalls' = closeCallsAfterFinally(closeCalls, completion)
    /\ pc' = "close"

\* lines 565-580: the launch resolves; the try block runs up to its first await
LaunchOk ==
    /\ pc = "launch"
    /\ browser' = "open"
    /\ step' = 1
    /\ pc' = "scrape"
    /\ UNCHANGED <<config, users, exitCode, closeCalls, launches, servicesText,
                   pending, result, outcome, errorMessage, requests, delivery,
                   ops, interval, orphans, navigations, dialogs,
                   prevNotified>>

\* lines 581-584: the launch rejects; the error is logged and rethrown, the
\* call rejects without entering the second try
LaunchThrows ==
    /\ pc = "launch"
    /\ errorMessage' = <<"launch">>
    /\ result' = "throw"
    /\ outcome' = "LaunchError"
    /\ pc' = "returned"
    /\ UNCHANGED <<config, users, exitCode, probe, requests, delivery, ops,
                   interval, dialogs,
                   prevNotified>>

BadNavigationsAfterGoto(n) == n + 2

\* page.goto() calls made once line 616 was reached
navigationsAfterGoto(n) == n + 1

\* an awaited page call before the last resolves and the next one is made
ScrapeOk ==
    /\ pc = "scrape"
    /\ step < Len(ScrapeSteps)
    /\ step' = step + 1
    /\ navigations' = IF ScrapeSteps[step + 1] = "goto"
                       THEN navigationsAfterGoto(navigations)
                       ELSE navigations
    /\ UNCHANGED <<config, users, pc, exitCode, browser, closeCalls, launches,
                   servicesText, pending, result, outcome, errorMessage,
                   requests, delivery, ops, interval, orphans, dialogs,
                   prevNotified>>

\* lines 628-639 and 643-644: $eval resolves with the text, the marker is
\* tested, the return value is held while finally closes the browser
ScrapeEval ==
    /\ pc = "scrape"
    /\ step = Len(ScrapeSteps)
    /\ \E tc \in TextContents :
          /\ servicesText' = OrEmpty(tc)
          /\ Finally(IF Includes(OrEmpty(tc), Marker) THEN "true" ELSE "false")
    /\ UNCHANGED <<config, users, exitCode, browser, step, launches, result,
                   outcome, errorMessage, requests, delivery, ops, interval,
                   orphans, navigations, dialogs,
                   prevNotified>>

\* lines 640-644: an awaited page call rejects; the catch logs the error and
\* returns false, held while finally closes the browser
ScrapeThrows ==
    /\ pc = "scrape"
    /\ errorMessage' = <<ScrapeSteps[step]>>
    /\ Finally("caught")
    /\ UNCHANGED <<config, users, exitCode, browser, step, launches,
                   servicesText, result, outcome, requests, delivery, ops,
                   interval, orphans, navigations, dialogs,
                   prevNotified>>

\* browser.close() resolves: the call returns the held value
CloseOk ==
    /\ pc = "close"
    /\ browser' = "closed"
    /\ result' = IF pending = "true" THEN "true" ELSE "false"
    /\ outcome' = CASE pending = "true" -> "Found"
                    [] pending = "false" -> "NotFound"
                    [] pending = "caught" -> "ScrapeError"
    /\ pending' = "none"
    /\ servicesText' = <<>>
    /\ pc' = "returned"
    /\ dialogs' = SessionGone(dialogs)
    /\ UNCHANGED <<config, users, exitCode, step, closeCalls, launches,
                   errorMessage, requests, delivery, ops, interval, orphans,
                   navigations,
                   prevNotified>>

\* browser.close() rejects: its error replaces the held value and the call
\* rejects; whether the browser process is gone is up to the browser.  pending
\* keeps the replaced value until the next call, nothing reads it
CloseThrows ==
    /\ pc = "close"
    /\ browser' \in {"closed"} \cup (IF orphans < MaxOrphans THEN {"open"} ELSE {})
    /\ dialogs' = IF browser' = "closed" THEN SessionGone(dialogs) ELSE dialogs
    /\ result' = "throw"
    /\ outcome' = "CloseError"
    /\ errorMessage' = <<"close">>
    /\ servicesText' = <<>>
    /\ pc' = "returned"
    /\ UNCHANGED <<config, users, exitCode, step, closeCalls, launches, pending,
                   requests, delivery, ops, interval, orphans, navigations,
                   prevNotified>>

----------------------------------------------------------------------------
(* The dialog handler, lines 603-613.  It is registered before page.goto is  *)
(* called and runs as its own asynchronous function, whatever main() awaits. *)

\* index in ScrapeSteps of the first call made with the handler registered
HandlerRegistered == CHOOSE i \in 1..Len(ScrapeSteps) : ScrapeSteps[i] = "goto"

BadAcceptFailureCaught == FALSE

\* dialog.accept() is awaited inside the try/catch of lines 607-612
acceptFailureCaught == TRUE

\* lines 603-606: the page raises a dialog; the handler logs its type and
\* message and sets its timer
DialogRaised ==
    /\ pc = "scrape"
    /\ step >= HandlerRegistered
    /\ Len(dialogs) < MaxDialogs
    /\ dialogs' = Append(dialogs, "delay")
    /\ UNCHANGED <<config, users, pc, exitCode, probe, result, outcome,
                   errorMessage, requests, delivery, ops, interval,
                   prevNotified>>

\* lines 606-608: the timer of a handler fires and it calls dialog.accept()
DialogTimer ==
    /\ pc # "exited"
    /\ \E i \in 1..Len(dialogs) :
          /\ dialogs[i] \in {"delay", "delayGone"}
          /\ dialogs' = [dialogs EXCEPT
                            ![i] = IF @ = "delay" THEN "accepting" ELSE "acceptingGone"]
    /\ UNCHANGED <<config, users, pc, exitCode, probe, result, outcome,
                   errorMessage, requests, delivery, ops, interval,
                   prevNotified>>

\* lines 608-609: dialog.accept() resolves, which takes a session still open
DialogAcceptOk ==
    /\ pc # "exited"
    /\ \E i \in 1..Len(dialogs) :
          /\ dialogs[i] = "accepting"
          /\ dialogs' = [dialogs EXCEPT ![i] = "accepted"]
    /\ UNCHANGED <<config, users, pc, exitCode, probe, result, outcome,
                   errorMessage, requests, delivery, ops, interval,
                   prevNotified>>

\* lines 610-612: dialog.accept() rejects and the catch logs the error.  Were
\* it not caught, the handler's promise would reject with nothing to handle
\* it and the runtime would end the process.
DialogAcceptThrows ==
    /\ pc # "exited"
    /\ \E i \in 1..Len(dialogs) :
          /\ dialogs[i] \in {"accepting", "acceptingGone"}
          /\ IF acceptFailureCaught
             THEN /\ dialogs' = [dialogs EXCEPT
                                    ![i] = IF @ = "accepting" THEN "failed"
                                                              ELSE "failedGone"]
                  /\ UNCHANGED <<pc, exitCode>>
             ELSE /\ dialogs' = [dialogs EXCEPT ![i] = "unhandled"]
                  /\ pc' = "exited"
                  /\ exitCode' = <<1>>
    /\ UNCHANGED <<config, users, probe, result, outcome, errorMessage,
                   requests, delivery, ops, interval,
                   prevNotified>>

----------------------------------------------------------------------------
(* main, lines 721-738, and main().catch, lines 741-746 *)

BadMainNextNoCatch(res) ==
    CASE res = "true" -> "notifyAllUsers"
      [] res = "false" -> "sleep"
      [] res = "throw" -> "notifyCritical"

BadMainNextNotifyOnThrow(res) ==
    CASE res = "true" -> "notifyAllUsers"
      [] res = "false" -> "sleep"
      [] res = "throw" -> "notifyAllUsers"

BadMainNextAlwaysNotify(res) ==
    CASE res = "true" -> "notifyAllUsers"
      [] res = "false" -> "notifyAllUsers"
      [] res = "throw" -> "notifyError"

\* where main() goes with what checkAppointments gave it: line 722 when it
\* returned, the catch of line 728 when it threw
mainNext(res) ==
    CASE res = "true" -> "notifyAllUsers"
      [] res = "false" -> "sleep"
      [] res = "throw" -> "notifyError"

\* lines 723-727: the wait is computed and the timer set
Sleep ==
    /\ \E k \in 0..(RandomSteps - 1) :
          interval' = getRandomizedInterval(SCRAPE_INTERVAL_MINUTES, k)
    /\ pc' = "sleep"

\* main() from line 722 or line 729 up to its next await, given where it goes
Continue(next) ==
    /\ CASE next = "notifyAllUsers" ->
               /\ FanOut("notifyAllUsers", notifyAllUsersRequests(users))
               /\ pc' = next
               /\ UNCHANGED <<errorMessage, interval>>
          [] next = "sleep" ->
               /\ Sleep
               /\ ops' = Append(ops, "sleep")
               /\ UNCHANGED <<errorMessage, requests, delivery>>
          [] next = "notifyError" ->
               /\ FanOut("notifyError", notifyErrorRequests(users, errorMessage))
               /\ pc' = next
               /\ UNCHANGED <<errorMessage, interval>>
          [] next = "notifyCritical" ->
               /\ errorMessage' = <<"Critical error">> \o errorMessage
               /\ FanOut("notifyCritical",
                         notifyErrorRequests(users, <<"Critical error">> \o errorMessage))
               /\ pc' = next
               /\ UNCHANGED interval
    /\ UNCHANGED <<config, users, exitCode, probe, result, outcome, dialogs,
                   prevNotified>>

BadAfterCheckDedup ==
    /\ pc = "returned"
    /\ Continue(IF result = "true" /\ prevNotified THEN "sleep"
                                                    ELSE mainNext(result))

\* the await of line 721 completes and main() runs up to its next await
AfterCheck ==
    /\ pc = "returned"
    /\ Continue(mainNext(result))

BadAllUsersJoined ==
    /\ pc = "notifyAllUsers"
    /\ AllSettled
    /\ IF \E i \in 1..Len(delivery) : delivery[i] = "rejected"
       THEN Continue("notifyError")
       ELSE /\ Sleep
            /\ ops' = Append(ops, "sleep")
            /\ UNCHANGED <<config, users, exitCode, probe, result, outcome,
                           errorMessage, requests, delivery, dialogs,
                           prevNotified>>

\* Promise.allSettled of notifyAllUsers resolves, then lines 723-727
AllUsersJoined ==
    /\ pc = "notifyAllUsers"
    /\ AllSettled
    /\ Sleep
    /\ ops' = Append(ops, "sleep")
    /\ UNCHANGED <<config, users, exitCode, probe, result, outcome,
                   errorMessage, requests, delivery, dialogs,
                   prevNotified>>

\* Promise.allSettled of notifyError resolves: in the loop's catch the retry
\* timer is set (lines 733-736), in main().catch the process exits (line 745)
ErrorJoined ==
    /\ pc \in {"notifyError", "notifyCritical"}
    /\ AllSettled
    /\ IF pc = "notifyError"
       THEN /\ interval' = retryDelay
            /\ pc' = "retrySleep"
            /\ ops' = Append(ops, "retrySleep")
            /\ UNCHANGED exitCode
       ELSE /\ pc' = "exited"
            /\ exitCode' = <<1>>
            /\ UNCHANGED <<interval, ops>>
    /\ UNCHANGED <<config, users, probe, result, outcome, errorMessage,
                   requests, delivery, dialogs,
                   prevNotified>>

\* the timer of line 727 or 736 fires: the loop goes round
Wake ==
    /\ pc \in {"sleep", "retrySleep"}
    /\ pc' = "loop"
    /\ interval' = 0
    /\ UNCHANGED <<config, users, exitCode, probe, result, outcome,
                   errorMessage, requests, delivery, ops, dialogs,
                   prevNotified>>

Next ==
    \/ LoadOk
    \/ LoadThrows
    \/ MainStart
    \/ Settle
    \/ StartupJoined
    \/ CallCheck
    \/ LaunchOk
    \/ LaunchThrows
    \/ ScrapeOk
    \/ ScrapeEval
    \/ ScrapeThrows
    \/ CloseOk
    \/ CloseThrows
    \/ AfterCheck
    \/ AllUsersJoined
    \/ ErrorJoined
    \/ Wake
    \/ DialogRaised
    \/ DialogTimer
    \/ DialogAcceptOk
    \/ DialogAcceptThrows

Spec == Init /\ [][Next]_vars

\* every browser call, every fetch and every timer eventually completes
LiveSpec == Spec /\ WF_vars(Next)

----------------------------------------------------------------------------
(* getRandomizedInterval on its own, over a wider range of configurations *)

IntervalInit ==
    /\ TELEGRAM_BOT_TOKEN = TRUE
    /\ USERS_JSON = [kind |-> "array", items |-> <<User(1)>>]
    /\ SCRAPE_INTERVAL_MINUTES \in WholeMinutes \cup SubMinutes
    /\ pc = "interval"
    /\ InitRest

ComputeInterval ==
    /\ pc = "interval"
    /\ \E k \in 0..(RandomSteps - 1) :
          interval' = getRandomizedInterval(SCRAPE_INTERVAL_MINUTES, k)
    /\ ops' = <<"getRandomizedInterval">>
    /\ UNCHANGED <<config, users, pc, exitCode, probe, result, outcome,
                   errorMessage, requests, delivery, dialogs,
                   prevNotified>>

IntervalNext == ComputeInterval

IntervalSpec == IntervalInit /\ [][IntervalNext]_vars

----------------------------------------------------------------------------
(* Properties *)

B == baseInterval(SCRAPE_INTERVAL_MINUTES)

Count(s, x) == Cardinality({i \in 1..Len(s) : s[i] = x})

\* the pcs at which checkAppointments has completed and main() goes on
AfterCheckPcs == {"returned", "notifyAllUsers", "notifyError", "sleep",
                  "retrySleep", "loop"}

\* the pcs before the while loop of main() is entered
StartingPcs == {"load", "main", "notifyStartup"}

FanOutNames == {"notifyStartup", "notifyAllUsers", "notifyError",
                "notifyCritical"}

\* C1: in a checkAppointments call whose launch succeeded, browser.close() is
\* not called while the try block runs and has been called exactly once when
\* the call has returned or thrown, whatever the outcome.
C1_ClosedExactlyOnce ==
    /\ pc \in {"launch", "scrape"} => closeCalls = 0
    /\ pc = "close" => closeCalls = 1
    /\ (pc \in AfterCheckPcs /\ browser # "none") => closeCalls = 1

C1_Witness ==
    /\ pc = "returned"
    /\ outcome = "ScrapeError"
    /\ errorMessage = <<"goto">>
    /\ browser = "closed"
    /\ closeCalls = 1

\* C2: once a fan-out has begun, exactly one request per recipient has been
\* issued, the i-th to the i-th recipient, whatever became of the others.
C2_OneAttemptPerRecipient ==
    (\E n \in FanOutNames : n \in Range(ops)) =>
        /\ Len(requests) = Len(users)
        /\ Len(delivery) = Len(users)
        /\ \A i \in 1..Len(users) :
              requests[i].chat_id = users[i].telegram_user_id

C2_Witness ==
    /\ pc = "notifyError"
    /\ Len(users) = 2
    /\ delivery[1] = "rejected"
    /\ delivery[2] = "notOk"
    /\ Len(requests) = 2

\* C3: after a probe that returned Found, the availability fan-out has issued
\* one request per recipient, to that recipient's chat, with that recipient's
\* credentials and with no other recipient's.
C3_OwnCredentials ==
    (outcome = "Found" /\ pc \in {"notifyAllUsers", "sleep", "loop"}) =>
        /\ Len(requests) = Len(users)
        /\ \A i \in 1..Len(users) :
              /\ requests[i].text.headline = "availability"
              /\ requests[i].chat_id = users[i].telegram_user_id
              /\ requests[i].text.username = users[i].embassy_id
              /\ requests[i].text.password = users[i].embassy_password
              /\ \A j \in 1..Len(users) : j # i =>
                    /\ requests[i].text.username # users[j].embassy_id
                    /\ requests[i].text.password # users[j].embassy_password

C3_Witness ==
    /\ outcome = "Found"
    /\ pc = "notifyAllUsers"
    /\ Len(users) = 2
    /\ requests[2].text.username = <<"id", 2>>
    /\ requests[2].chat_id = <<"chat", 2>>

\* C4: once the while loop of main() is entered it is never left, and the
\* process exits only from the start-up phase.
C4_LoopNeverEnds ==
    [][/\ pc \notin StartingPcs \cup {"exited"} =>
            (pc' \notin StartingPcs \cup {"exited"} /\ exitCode' = <<>>)
       /\ pc' = "exited" => pc \in StartingPcs \cup {"exited"}]_vars

C4_Witness ==
    /\ pc = "loop"
    /\ outcome = "CloseError"
    /\ ops = <<"checkAppointments", "notifyError", "retrySleep">>
    /\ \A i \in 1..Len(delivery) : delivery[i] = "rejected"
    /\ exitCode = <<>>

\* C5: when a wait begins after a probe that failed with the browser launched,
\* one error notification per recipient, carrying the reason, has been issued.
C5_ErrorNotified ==
    (pc \in {"sleep", "retrySleep"} /\ outcome \in {"ScrapeError", "CloseError"}) =>
        /\ "notifyError" \in Range(ops)
        /\ Len(requests) = Len(users)
        /\ \A i \in 1..Len(requests) :
              /\ requests[i].text.headline = "error"
              /\ requests[i].text.error = errorMessage

\* C6: when a wait begins after a probe that ended in failure, the orphan
\* cleanup has run in that cycle.
C6_HygieneAfterFailed ==
    (pc \in {"sleep", "retrySleep", "loop"}
        /\ outcome \in {"ScrapeError", "LaunchError", "CloseError"}) =>
        "cleanupOrphans" \in Range(ops)

\* C7 as stated: every computed wait lies in [0.8 * B, 1.2 * B].
C7_InRange ==
    "getRandomizedInterval" \in Range(ops) =>
        (4 * B <= 5 * interval /\ 5 * interval <= 6 * B)

\* C7 as amended: the computed wait is within half a millisecond of
\* [0.8 * B, 1.2 * B], and inside it when B is a multiple of 5 ms, as every
\* whole number of minutes is.
C7_InRangeUpToRounding ==
    "getRandomizedInterval" \in Range(ops) =>
        /\ 8 * B - 5 <= 10 * interval
        /\ 10 * interval <= 12 * B + 5
        /\ B % 5 = 0 => (4 * B <= 5 * interval /\ 5 * interval <= 6 * B)

C7_Witness ==
    /\ "getRandomizedInterval" \in Range(ops)
    /\ SCRAPE_INTERVAL_MINUTES = Minutes(10, 1)
    /\ interval = 480000

\* C8: with a recipient list that is not a list, is empty or has an entry
\* with a missing or empty field, main() is never entered, no probe and no
\* browser launch happens, and the process can only exit, with status 1.
C8_InvalidNeverStarts ==
    (\/ USERS_JSON.kind # "array"
     \/ USERS_JSON.items = <<>>
     \/ \E i \in 1..Len(USERS_JSON.items) :
           \/ USERS_JSON.items[i].telegram_user_id = Empty
           \/ USERS_JSON.items[i].embassy_id = Empty
           \/ USERS_JSON.items[i].embassy_password = Empty) =>
        /\ pc \in {"load", "exited"}
        /\ launches = 0
        /\ ops = <<>>
        /\ requests = <<>>
        /\ pc = "exited" => (exitCode # <<>> /\ exitCode[1] # 0)

C8_Witness ==
    /\ pc = "exited"
    /\ TELEGRAM_BOT_TOKEN
    /\ USERS_JSON.kind = "array"
    /\ Len(USERS_JSON.items) = 2
    /\ USERS_JSON.items[1] = User(1)
    /\ USERS_JSON.items[2].embassy_password = Empty
    /\ exitCode = <<1>>

\* C9: when the process has exited on a validation failure, exactly one fatal
\* notification fan-out was attempted before.
C9_OneFatalFanOut ==
    pc = "exited" =>
        Count(ops, "notifyCritical") + Count(ops, "notifyError") = 1

\* C10: in a cycle whose probe returned NotFound no request is issued and
\* main() goes from the return straight to the jittered wait.
C10_NotFoundSilent ==
    outcome = "NotFound" =>
        /\ requests = <<>>
        /\ pc \in {"returned", "sleep", "loop"}
        /\ pc = "returned" => ops = <<"checkAppointments">>
        /\ pc \in {"sleep", "loop"} => ops = <<"checkAppointments", "sleep">>
        /\ pc = "sleep" =>
              \E k \in 0..(RandomSteps - 1) :
                 interval = getRandomizedInterval(SCRAPE_INTERVAL_MINUTES, k)

C10_Witness ==
    /\ outcome = "NotFound"
    /\ pc = "sleep"
    /\ requests = <<>>
    /\ Len(users) = 2

\* sessions open: the current call's and those earlier calls left open
OpenSessions == orphans + (IF browser = "open" THEN 1 ELSE 0)

\* the pcs of a cycle, from the call of checkAppointments to the end of the wait
CyclePcs == {"launch", "scrape", "close", "returned", "notifyAllUsers",
             "notifyError", "sleep", "retrySleep"}

\* C11: at most one browser session is open at any time, and
\* checkAppointments is not called again while an earlier session is open.
C11_AtMostOneSession ==
    /\ OpenSessions <= 1
    /\ pc = "launch" => orphans = 0

\* C12: no sendTelegramNotification call rejects to its caller.
C12_NotifyNeverRaises ==
    \A i \in 1..Len(delivery) : delivery[i] # "rejected"

\* C13: a checkAppointments call that met an error at launch, in a page step
\* or at close does not reject: main() receives a value.
C13_ProbeNeverRaises ==
    outcome \in {"LaunchError", "ScrapeError", "CloseError"} => result # "throw"

\* C14: while main() waits between cycles or runs a probe, no delivery of a
\* fan-out is outstanding.
C14_JoinedBeforeWait ==
    pc \in {"sleep", "retrySleep", "loop", "launch", "scrape", "close", "returned"} =>
        \A i \in 1..Len(delivery) : delivery[i] # "pending"

C14_Witness ==
    /\ pc = "sleep"
    /\ outcome = "Found"
    /\ Len(delivery) = 2
    /\ delivery[1] = "rejected"
    /\ delivery[2] = "ok"

\* C15: when the loop is entered for the first time, the orphan cleanup has
\* run once and then the startup notice was issued once per recipient, and
\* the process has not exited.
C15_HygieneThenStartupNotice ==
    (pc = "loop" /\ launches = 0) =>
        /\ ops = <<"cleanupOrphans", "notifyStartup">>
        /\ Len(requests) = Len(users)
        /\ \A i \in 1..Len(requests) :
              /\ requests[i].text.headline = "startup"
              /\ requests[i].chat_id = users[i].telegram_user_id
        /\ exitCode = <<>>

\* C16: once main() has started, and after every completed checkAppointments
\* call, whatever its outcome, checkAppointments is eventually called (again).
C16_ProbeAgain == (pc \in {"main", "returned"}) ~> (pc = "launch")

C16_Witness ==
    /\ pc = "launch"
    /\ orphans = 1
    /\ ops = <<"checkAppointments">>

\* C17 as stated: every wait between two probes lies in [0.8 * B, 1.2 * B].
C17_EveryWaitJittered ==
    pc \in {"sleep", "retrySleep"} =>
        (4 * B <= 5 * interval /\ 5 * interval <= 6 * B)

\* C17 as amended: after a call that returned (Found, NotFound or a caught
\* page error) the wait is the jittered one, within half a millisecond of
\* [0.8 * B, 1.2 * B] and inside it when B is a multiple of 5 ms; after a call
\* that threw (launch or close failed) the wait is 60000 ms whatever B is.
C17_WaitRule ==
    /\ pc = "sleep" =>
          /\ outcome \in {"Found", "NotFound", "ScrapeError"}
          /\ 8 * B - 5 <= 10 * interval
          /\ 10 * interval <= 12 * B + 5
          /\ B % 5 = 0 => (4 * B <= 5 * interval /\ 5 * interval <= 6 * B)
    /\ pc = "retrySleep" =>
          /\ outcome \in {"LaunchError", "CloseError"}
          /\ interval = 60000

C17_Witness ==
    /\ pc = "retrySleep"
    /\ outcome = "LaunchError"
    /\ SCRAPE_INTERVAL_MINUTES = Minutes(10, 1)
    /\ interval = 60000

\* C18: in every cycle checkAppointments is called once, the browser is
\* launched once and page.goto is called at most once (once iff line 616 was
\* reached), also when the probe fails.
C18_SinglePass ==
    pc \in CyclePcs =>
        /\ Count(ops, "checkAppointments") = 1
        /\ launches = 1
        /\ navigations <= 1
        /\ navigations = 1 <=> step >= HandlerRegistered

C18_Witness ==
    /\ pc = "sleep"
    /\ outcome = "ScrapeError"
    /\ errorMessage = <<"goto">>
    /\ launches = 1
    /\ navigations = 1

\* C19: while main() fans out notifications or waits, no browser session is
\* open.
C19_NoSessionOutsideProbe ==
    pc \in {"notifyStartup", "notifyAllUsers", "notifyError", "sleep", "retrySleep"} =>
        OpenSessions = 0

\* how far a dialog handler has got
Stage(h) == CASE h \in {"delay", "delayGone"} -> 0
              [] h \in {"accepting", "acceptingGone"} -> 1
              [] OTHER -> 2

\* a step of a dialog handler: one is started or one moves on
HandlerStep ==
    \/ Len(dialogs') > Len(dialogs)
    \/ /\ Len(dialogs') = Len(dialogs)
       /\ \E i \in 1..Len(dialogs) : Stage(dialogs'[i]) > Stage(dialogs[i])

\* C20: a step of a dialog handler moves the handler by one stage (timer
\* first, accept after), leaves the probe and main() where they are, does not
\* change the outcome and never leaves a rejection unhandled, also when the
\* accept fails after the session was closed.
C20_DialogFailureContained ==
    [][HandlerStep =>
          /\ UNCHANGED <<pc, exitCode, step, browser, pending, result, outcome,
                         errorMessage, requests, delivery, ops>>
          /\ \A i \in 1..Len(dialogs) :
                /\ Stage(dialogs'[i]) <= Stage(dialogs[i]) + 1
                /\ dialogs'[i] # "unhandled"]_vars

C20_Witness ==
    /\ pc = "sleep"
    /\ outcome = "Found"
    /\ browser = "closed"
    /\ Len(dialogs) = 1
    /\ dialogs[1] = "failedGone"

\* C21: once a delivery of a fan-out has failed, no further request is issued
\* (no retry, no error notice for it) and main() is where it is when every
\* delivery succeeds: after the startup notice in the loop, after the
\* availability notices in the jittered wait, after the error notices in the
\* retry wait.
C21_DeliveryFailureIgnored ==
    (\E i \in 1..Len(delivery) : delivery[i] \in {"notOk", "rejected"}) =>
        /\ Len(requests) = Len(users)
        /\ \/ ops = <<"notifyStartup">> /\ pc \in {"notifyStartup", "loop"}
           \/ ops = <<"checkAppointments", "notifyAllUsers">>
                 /\ pc = "notifyAllUsers"
           \/ ops = <<"checkAppointments", "notifyAllUsers", "sleep">>
                 /\ pc \in {"sleep", "loop"}
                 /\ pc = "sleep" =>
                       \E k \in 0..(RandomSteps - 1) :
                          interval = getRandomizedInterval(SCRAPE_INTERVAL_MINUTES, k)
           \/ ops = <<"checkAppointments", "notifyError">> /\ pc = "notifyError"
           \/ ops = <<"checkAppointments", "notifyError", "retrySleep">>
                 /\ pc \in {"retrySleep", "loop"}
                 /\ pc = "retrySleep" => interval = retryDelay

C21_Witness ==
    /\ pc = "sleep"
    /\ ops = <<"checkAppointments", "notifyAllUsers", "sleep">>
    /\ delivery = <<"notOk", "rejected">>
    /\ Len(requests) = 2

\* the text has the word LEY directly followed by the word MEMORIA
ContainsMarker(text) ==
    \E i \in 1..(Len(text) - 1) : text[i] = "LEY" /\ text[i + 1] = "MEMORIA"

\* C22: the value held after the last page step is true iff the extracted text
\* contains the marker (false for the empty text), and a call that then
\* returns gives Found iff the text contained the marker, NotFound otherwise.
C22_FoundIffMarker ==
    /\ []((pc = "close" /\ pending # "caught") =>
            /\ pending \in {"true", "false"}
            /\ pending = "true" <=> ContainsMarker(servicesText)
            /\ servicesText = <<>> => pending = "false")
    /\ [][(pc = "close" /\ pending # "caught" /\ pc' = "returned"
              /\ result' # "throw") =>
            /\ outcome' = IF ContainsMarker(servicesText) THEN "Found"
                                                          ELSE "NotFound"
            /\ result' = IF ContainsMarker(servicesText) THEN "true"
                                                         ELSE "false"]_vars

C22_Witness ==
    /\ pc = "close"
    /\ pending = "true"
    /\ servicesText = <<"OTHER", "LEY", "MEMORIA">>

\* C23: availability requests exist only in a cycle whose checkAppointments
\* call returned true: none at startup, after NotFound, after a caught error
\* or after a throw, also when close failed with the marker found.
C23_AvailabilityOnlyWhenFound ==
    (\/ "notifyAllUsers" \in Range(ops)
     \/ \E i \in 1..Len(requests) : requests[i].text.headline = "availability") =>
        /\ outcome = "Found"
        /\ result = "true"
        /\ pc \in {"notifyAllUsers", "sleep", "loop"}

C23_Witness ==
    /\ pc = "retrySleep"
    /\ outcome = "CloseError"
    /\ pending = "true"
    /\ Len(requests) = 2
    /\ \A i \in 1..Len(requests) : requests[i].text.headline = "error"

\* C24: a cycle makes at most one fan-out, so at most one request per
\* recipient.
C24_OneFanOutPerCycle ==
    "checkAppointments" \in Range(ops) =>
        /\ Cardinality({i \in 1..Len(ops) : ops[i] \in FanOutNames}) <= 1
        /\ Len(requests) <= Len(users)
        /\ \A i, j \in 1..Len(requests) :
              i # j => requests[i].chat_id # requests[j].chat_id

C24_Witness ==
    /\ pc = "loop"
    /\ ops = <<"checkAppointments", "notifyAllUsers", "sleep">>
    /\ Len(requests) = 2
    /\ requests[1].chat_id # requests[2].chat_id

\* C25: a cycle whose call returned Found makes the full availability fan-out
\* also when the previous cycle made one.
C25_NoSuppression ==
    (prevNotified /\ outcome = "Found"
        /\ pc \in {"notifyAllUsers", "sleep", "loop"}) =>
        /\ "notifyAllUsers" \in Range(ops)
        /\ Len(requests) = Len(users)
        /\ \A i \in 1..Len(requests) :
              /\ requests[i].text.headline = "availability"
              /\ requests[i].chat_id = users[i].telegram_user_id

C25_Witness ==
    /\ prevNotified
    /\ outcome = "Found"
    /\ pc = "notifyAllUsers"
    /\ Len(requests) = 2
    /\ Len(users) = 2

\* C26: once loaded, the recipient list is the list of USERS_JSON, in content
\* and order, and no step changes it or the configuration.
C26_RecipientsUnchanged ==
    /\ [](pc \notin {"load", "exited"} => users = USERS_JSON.items)
    /\ [][/\ UNCHANGED config
          /\ pc # "load" => UNCHANGED users]_vars

C26_Witness ==
    /\ pc = "sleep"
    /\ prevNotified
    /\ outcome = "ScrapeError"
    /\ users = <<User(1), User(2)>>
    /\ USERS_JSON.items = <<User(1), User(2)>>

====
